---- MODULE Spec2Model ----
(***************************************************************************)
(* Model of TerminalBuffer (src/src/terminal_buffer.rs): a prefix and an   *)
(* editable value rendered to a terminal through a writer.                 *)
(*                                                                         *)
(* Text is a sequence of characters (Unicode scalar values).  Each         *)
(* character has a UTF-8 length, a display width and a grapheme-break      *)
(* class, so that the three spaces the code mixes (byte offset, grapheme   *)
(* index, display column) stay distinct in the model.                      *)
(*                                                                         *)
(* usize values are integers; a negative integer n stands for the wrapped  *)
(* value 2^64 + n that a build without overflow checks produces.           *)
(***************************************************************************)
EXTENDS Integers, Sequences, FiniteSets, TLC

VARIABLES prefix, prefix_cols, buffer, buffer_cols, echo, size, position,
          sink, result, returned, last, plain

vars == <<prefix, prefix_cols, buffer, buffer_cols, echo, size, position,
          sink, result, returned, last, plain>>

----------------------------------------------------------------------------
(* Bounds of the model *)

\* longest text (in characters) an edit may produce
MaxLen == 3
\* largest cursor column given to set_position
MaxCol == 5
\* largest amount given to erase_before
MaxAmount == 2

----------------------------------------------------------------------------
(* Characters *)

\* "zh" is a wide CJK character (U+4E2D), "acute" the combining acute
\* accent (U+0301); "a", "b", ">", " " and "*" are ASCII.
MaskChars == {"*"}

\* char::len_utf8
CharBytes(c) == CASE c = "zh" -> 3
                  [] c = "acute" -> 2
                  [] OTHER -> 1

\* UnicodeWidthChar::width
CharWidth(c) == CASE c = "zh" -> 2
                  [] c = "acute" -> 0
                  [] OTHER -> 1

\* Grapheme_Cluster_Break = Extend
IsExtend(c) == c = "acute"

RECURSIVE ByteLen(_)
\* str::len: length in bytes
ByteLen(s) == IF s = <<>> THEN 0 ELSE CharBytes(Head(s)) + ByteLen(Tail(s))

RECURSIVE Width(_)
\* UnicodeWidthStr::width
Width(s) == IF s = <<>> THEN 0 ELSE CharWidth(Head(s)) + Width(Tail(s))

RECURSIVE Segment(_, _)
\* UnicodeSegmentation::graphemes(s, true), accumulating clusters in acc
Segment(s, acc) ==
    IF s = <<>> THEN acc
    ELSE IF IsExtend(Head(s)) /\ acc # <<>>
         THEN Segment(Tail(s),
                      [acc EXCEPT ![Len(acc)] = Append(@, Head(s))])
         ELSE Segment(Tail(s), Append(acc, <<Head(s)>>))

RECURSIVE Join(_)
\* [&str]::join("")
Join(gs) == IF gs = <<>> THEN <<>> ELSE Head(gs) \o Join(Tail(gs))

\* String::repeat
Repeat(c, n) == [i \in 1..n |-> c]

----------------------------------------------------------------------------
(* Integer and slice semantics of the build *)

\* unsigned a < b on usize values (negative integers are wrapped values)
ULt(a, b) == IF (a < 0) = (b < 0) THEN a < b ELSE b < 0

\* `x as u16`
AsU16(x) == x % 65536

\* u16::try_from(usize) succeeds
FitsU16(x) == x >= 0 /\ x <= 65535

\* n is a char boundary of s (str::is_char_boundary)
IsCharBoundary(s, n) == \E k \in 0..Len(s) : ByteLen(SubSeq(s, 1, k)) = n

\* number of characters in the first n bytes of s, n a char boundary
CharsAt(s, n) == CHOOSE k \in 0..Len(s) : ByteLen(SubSeq(s, 1, k)) = n

\* &s[lo..hi] on a str does not panic
StrSliceOk(s, lo, hi) ==
    /\ lo >= 0 /\ hi >= 0 /\ lo <= hi /\ hi <= ByteLen(s)
    /\ IsCharBoundary(s, lo) /\ IsCharBoundary(s, hi)

\* &s[lo..hi] on a str
StrSlice(s, lo, hi) == SubSeq(s, CharsAt(s, lo) + 1, CharsAt(s, hi))

\* &v[lo..hi] on a slice does not panic
VecSliceOk(v, lo, hi) == lo >= 0 /\ hi >= 0 /\ lo <= hi /\ hi <= Len(v)

\* &v[lo..hi] on a slice
VecSlice(v, lo, hi) == SubSeq(v, lo + 1, hi)

----------------------------------------------------------------------------
(* The writer: what one operation queued or wrote to it, in order *)

MoveTo(col, row) == [kind |-> "MoveTo", col |-> col, row |-> row, bytes |-> <<>>]
ClearCurrentLine == [kind |-> "Clear", col |-> 0, row |-> 0, bytes |-> <<>>]
WriteBytes(s) == [kind |-> "Write", col |-> 0, row |-> 0, bytes |-> s]
Flush == [kind |-> "Flush", col |-> 0, row |-> 0, bytes |-> <<>>]

\* Which writer call of an operation returns Err: 0 is none of them.
FailPoints == 0..6

\* a writer whose failing call is skipped and the later calls still made
Emitted_past_failure(steps, failAt) ==
    IF failAt \in 1..Len(steps)
    THEN SubSeq(steps, 1, failAt - 1) \o SubSeq(steps, failAt + 1, Len(steps))
    ELSE steps

\* The `?` after every writer call: the calls before the failing one reach
\* the writer, the failing one and those after it do not.
Emitted(steps, failAt) ==
    IF failAt \in 1..Len(steps) THEN SubSeq(steps, 1, failAt - 1) ELSE steps

Outcome(steps, failAt) ==
    IF failAt \in 1..Len(steps) THEN "io_err" ELSE "ok"

----------------------------------------------------------------------------
(* Pure parts of the operations *)

\* Option<char>::None
NoEcho == "none"

\* fn graphemes
graphemes(buf) == Segment(buf, <<>>)

\* fn visible
\* visible returning the text whether or not a mask is set
visible_literal(buf, cols, e) == buf

visible(buf, cols, e) == IF e # NoEcho THEN Repeat(e, cols) ELSE buf

\* redraw clearing the line before it has moved to the line's row
redraw_calls_clear_first(pfx, vis, pos) ==
    << ClearCurrentLine,
       MoveTo(0, pos[2]),
       WriteBytes(pfx),
       WriteBytes(vis),
       MoveTo(pos[1], pos[2]),
       Flush >>

\* redraw writing from wherever the cursor is, without MoveTo(0, row)
redraw_calls_from_cursor(pfx, vis, pos) ==
    << ClearCurrentLine,
       WriteBytes(pfx),
       WriteBytes(vis),
       MoveTo(pos[1], pos[2]),
       Flush >>

\* fn redraw: the writer calls it makes, in order
redraw_calls(pfx, vis, pos) ==
    << MoveTo(0, pos[2]),
       ClearCurrentLine,
       WriteBytes(pfx),
       WriteBytes(vis),
       MoveTo(pos[1], pos[2]),
       Flush >>

\* write_char splitting one byte early
write_char_split_early(buf, pos) ==
    IF pos = ByteLen(buf)
    THEN [panic |-> FALSE, before |-> buf, after |-> <<>>]
    ELSE IF pos # 0
         THEN IF StrSliceOk(buf, 0, pos - 1)
              THEN [panic |-> FALSE,
                    before |-> StrSlice(buf, 0, pos - 1),
                    after |-> StrSlice(buf, pos - 1, ByteLen(buf))]
              ELSE [panic |-> TRUE, before |-> <<>>, after |-> <<>>]
         ELSE [panic |-> FALSE, before |-> <<>>, after |-> <<>>]

\* fn write_char, lines 194-204: the (before, after) parts of the buffer
\* for the offset pos; panic when a str slice panics.
write_char_split(buf, pos) ==
    IF pos = ByteLen(buf)
    THEN [panic |-> FALSE, before |-> buf, after |-> <<>>]
    ELSE IF pos # 0
         THEN IF StrSliceOk(buf, 0, pos)
              THEN [panic |-> FALSE,
                    before |-> StrSlice(buf, 0, pos),
                    after |-> StrSlice(buf, pos, ByteLen(buf))]
              ELSE [panic |-> TRUE, before |-> <<>>, after |-> <<>>]
         ELSE [panic |-> FALSE, before |-> <<>>, after |-> <<>>]

\* fn write_char, line 215: the column given to redraw
write_char_col(pcols, pos) == AsU16(pcols + pos + 1)

\* fn erase_before, line 112
erase_start(pos, amount) == IF ~ULt(pos, amount) THEN pos - amount ELSE amount

\* fn erase_before, lines 114-119: the new buffer; panic when a slice of
\* the grapheme vector panics.
erase_new_buf(buf, cols, pos, amount) ==
    LET gs == graphemes(buf)
        start == erase_start(pos, amount)
    IN IF VecSliceOk(gs, 0, start) /\ VecSliceOk(gs, pos, cols)
       THEN [panic |-> FALSE,
             buf |-> Join(VecSlice(gs, 0, start)) \o Join(VecSlice(gs, pos, cols))]
       ELSE [panic |-> TRUE, buf |-> <<>>]

\* fn erase_before, line 121
erase_new_col(pcols, pos, amount) == pcols + (pos - amount)

\* fn update
update(value) == [buffer |-> value, buffer_cols |-> Width(value)]

\* fn end_pos: the position returned; panic on the subtraction (a build
\* with overflow checks) and on todo!().
end_pos(pcols, sz, pos, value, checks) ==
    LET row == pos[2]
        w == sz[1]
        remainder == w - pcols
    IN IF w < pcols /\ checks
       THEN [panic |-> TRUE, pos |-> <<0, 0>>]
       ELSE IF ULt(ByteLen(value), remainder)
       THEN [panic |-> FALSE, pos |-> <<AsU16(pcols + Width(value)), row>>]
       ELSE [panic |-> TRUE, pos |-> <<0, 0>>]

\* impl Into<String> for TerminalBuffer
into(self) == self.buffer

----------------------------------------------------------------------------
(* State *)

Prefixes == {<<">", " ">>}
Echoes == {NoEcho} \cup MaskChars
Rows == {0, 1}
\* positions a caller hands to set_position: every column of the first
\* row, and one position of each other row
Positions == ((0..MaxCol) \X {0}) \cup {<<3, r>> : r \in Rows \ {0}}
\* positions a caller hands to redraw and refresh
DrawPositions == {<<0, 1>>, <<MaxCol, 0>>}
Sizes == {<<MaxCol + 1, 2>>}
\* characters a caller hands to write_char and push
InputChars == {"a", "zh", "acute"}
\* values a caller hands to refresh
RefreshTexts == {<<>>, <<"a", "b">>, <<"zh">>, <<"a", "acute">>, <<"a", "zh">>}
\* values a caller hands to end_pos
EndValues == {<<"zh">>, <<"a", "zh">>}

\* What the last operation was, the text an edit found (and the cached
\* width erase_before found), and the position the operation gave to
\* redraw (drew = FALSE: it did not call redraw).  value is the text handed
\* to refresh or end_pos; again says that the operation is a redraw that
\* directly follows a successful redraw to the same position, whose writer
\* calls are first.
Edits == {"write_char", "erase_before", "push"}

Record(op, c, amount, drew, to) ==
    [op |-> op, c |-> c, amount |-> amount,
     buffer |-> IF op \in Edits THEN buffer ELSE <<>>,
     buffer_cols |-> IF op = "erase_before" THEN buffer_cols ELSE 0,
     drew |-> drew, to |-> to,
     value |-> <<>>, again |-> FALSE, first |-> <<>>]

\* fn new
Init ==
    /\ prefix \in Prefixes
    /\ prefix_cols = Width(prefix)
    /\ buffer = <<>>
    /\ buffer_cols = 0
    /\ echo \in Echoes
    /\ size = <<0, 0>>
    /\ position = <<0, 0>>
    /\ sink = <<>>
    /\ result = "ok"
    /\ returned = <<>>
    /\ last = Record("new", "", 0, FALSE, <<0, 0>>)
    /\ plain = [buffer |-> <<>>, buffer_cols |-> 0]

\* A panic unwinds out of the operation: nothing was stored or written.
Panic(op, c, amount) ==
    /\ result' = "panic"
    /\ sink' = <<>>
    /\ last' = Record(op, c, amount, FALSE, <<0, 0>>)
    /\ returned' = <<>>
    /\ UNCHANGED <<prefix, prefix_cols, buffer, buffer_cols, echo, size, position>>

\* The operation returns without touching the buffer or the writer.
Return(op, c, amount, res) ==
    /\ result' = res
    /\ sink' = <<>>
    /\ last' = Record(op, c, amount, FALSE, <<0, 0>>)
    /\ returned' = <<>>
    /\ UNCHANGED <<prefix, prefix_cols, buffer, buffer_cols, echo, size, position>>

\* update(value) with the redraw left out
UpdateWithoutRedraw(op, c, amount, value, to, failAt) ==
    LET u == update(value)
    IN /\ buffer' = u.buffer
       /\ buffer_cols' = u.buffer_cols
       /\ sink' = <<>>
       /\ result' = "ok"
       /\ last' = Record(op, c, amount, FALSE, to)
       /\ returned' = <<>>
       /\ UNCHANGED <<prefix, prefix_cols, echo, size, position>>

\* update storing the visible form of the value
UpdateStoringVisible(op, c, amount, value, to, failAt) ==
    LET vis == visible(value, Width(value), echo)
        calls == redraw_calls(prefix, vis, to)
    IN /\ buffer' = vis
       /\ buffer_cols' = Width(value)
       /\ sink' = Emitted(calls, failAt)
       /\ result' = Outcome(calls, failAt)
       /\ last' = Record(op, c, amount, TRUE, to)
       /\ returned' = <<>>
       /\ UNCHANGED <<prefix, prefix_cols, echo, size, position>>

\* update and redraw also storing the position given to redraw
UpdateStoringPosition(op, c, amount, value, to, failAt) ==
    LET u == update(value)
        calls == redraw_calls(prefix, visible(u.buffer, u.buffer_cols, echo), to)
    IN /\ buffer' = u.buffer
       /\ buffer_cols' = u.buffer_cols
       /\ position' = to
       /\ sink' = Emitted(calls, failAt)
       /\ result' = Outcome(calls, failAt)
       /\ last' = Record(op, c, amount, TRUE, to)
       /\ returned' = <<>>
       /\ UNCHANGED <<prefix, prefix_cols, echo, size>>

\* update and redraw putting the old text back when the redraw fails
UpdateRollingBack(op, c, amount, value, to, failAt) ==
    LET u == update(value)
        calls == redraw_calls(prefix, visible(u.buffer, u.buffer_cols, echo), to)
        failed == Outcome(calls, failAt) # "ok"
    IN /\ buffer' = IF failed THEN buffer ELSE u.buffer
       /\ buffer_cols' = IF failed THEN buffer_cols ELSE u.buffer_cols
       /\ sink' = Emitted(calls, failAt)
       /\ result' = Outcome(calls, failAt)
       /\ last' = [Record(op, c, amount, TRUE, to) EXCEPT
                     !.value = IF op = "refresh" THEN value ELSE <<>>]
       /\ returned' = <<>>
       /\ UNCHANGED <<prefix, prefix_cols, echo, size, position>>

\* update(value) followed by redraw(to): fn refresh, and the tail of
\* write_char (lines 213-216).
UpdateAndRedraw(op, c, amount, value, to, failAt) ==
    LET u == update(value)
        calls == redraw_calls(prefix, visible(u.buffer, u.buffer_cols, echo), to)
    IN /\ buffer' = u.buffer
       /\ buffer_cols' = u.buffer_cols
       /\ sink' = Emitted(calls, failAt)
       /\ result' = Outcome(calls, failAt)
       /\ last' = [Record(op, c, amount, TRUE, to) EXCEPT
                     !.value = IF op = "refresh" THEN value ELSE <<>>]
       /\ returned' = <<>>
       /\ UNCHANGED <<prefix, prefix_cols, echo, size, position>>

----------------------------------------------------------------------------
(* The unmasked twin: the buffer and buffer_cols of a TerminalBuffer made  *)
(* by new(prefix, None) that is given the same calls.  p is the twin's     *)
(* [buffer, buffer_cols]; its prefix and its position are the same.        *)

plain_push(p, c) == [p EXCEPT !.buffer = Append(@, c)]

plain_refresh(p, buf) == update(buf)

plain_erase_before(p, amount, checks) ==
    LET column == position[1]
        pos == column - prefix_cols
        nb == erase_new_buf(p.buffer, p.buffer_cols, pos, amount)
        new_col == erase_new_col(prefix_cols, pos, amount)
    IN IF \/ column < prefix_cols /\ checks
          \/ Len(graphemes(p.buffer)) = 0
          \/ nb.panic
          \/ ULt(pos, amount) /\ checks
          \/ ~FitsU16(new_col)
       THEN p
       ELSE update(nb.buf)

plain_write_char(p, c, checks) ==
    LET col == position[1]
        pos == col - prefix_cols
        parts == write_char_split(p.buffer, pos)
    IN IF (col < prefix_cols /\ checks) \/ parts.panic
       THEN p
       ELSE update(parts.before \o <<c>> \o parts.after)

----------------------------------------------------------------------------
(* Operations *)

\* A panic ends the program.
Running == result # "panic"

set_size(sz) ==
    /\ Running
    /\ UNCHANGED plain
    /\ size' = sz
    /\ sink' = <<>>
    /\ result' = "ok"
    /\ last' = Record("set_size", "", 0, FALSE, <<0, 0>>)
    /\ returned' = <<>>
    /\ UNCHANGED <<prefix, prefix_cols, buffer, buffer_cols, echo, position>>

set_position(p) ==
    /\ Running
    /\ UNCHANGED plain
    /\ position' = p
    /\ sink' = <<>>
    /\ result' = "ok"
    /\ last' = Record("set_position", "", 0, FALSE, <<0, 0>>)
    /\ returned' = <<>>
    /\ UNCHANGED <<prefix, prefix_cols, buffer, buffer_cols, echo, size>>

push(c, failAt) ==
    /\ Running
    /\ Len(buffer) < MaxLen
    /\ plain' = plain_push(plain, c)
    /\ buffer' = Append(buffer, c)
    /\ sink' = Emitted(<<WriteBytes(<<c>>)>>, failAt)
    /\ result' = Outcome(<<WriteBytes(<<c>>)>>, failAt)
    /\ last' = Record("push", c, 0, FALSE, <<0, 0>>)
    /\ returned' = <<>>
    /\ UNCHANGED <<prefix, prefix_cols, buffer_cols, echo, size, position>>

\* checks: the build has overflow checks (the subtraction panics) or not
\* (it wraps).
erase_before(amount, failAt, checks) ==
    /\ Running
    /\ plain' = plain_erase_before(plain, amount, checks)
    /\ LET column == position[1]
           row == position[2]
           pos == column - prefix_cols
           nb == erase_new_buf(buffer, buffer_cols, pos, amount)
           new_col == erase_new_col(prefix_cols, pos, amount)
       IN IF column < prefix_cols /\ checks
          THEN Panic("erase_before", "", amount)
          ELSE IF Len(graphemes(buffer)) = 0
          THEN Return("erase_before", "", amount, "ok")
          ELSE IF nb.panic
          THEN Panic("erase_before", "", amount)
          ELSE IF ULt(pos, amount) /\ checks
          THEN Panic("erase_before", "", amount)
          ELSE IF ~FitsU16(new_col)
          THEN Return("erase_before", "", amount, "conv_err")
          ELSE /\ Len(nb.buf) <= MaxLen
               /\ UpdateAndRedraw("erase_before", "", amount, nb.buf,
                                  <<new_col, row>>, failAt)

write_prefix(failAt) ==
    /\ Running
    /\ UNCHANGED plain
    /\ sink' = Emitted(<<WriteBytes(prefix), Flush>>, failAt)
    /\ result' = Outcome(<<WriteBytes(prefix), Flush>>, failAt)
    /\ last' = Record("write_prefix", "", 0, FALSE, <<0, 0>>)
    /\ returned' = <<>>
    /\ UNCHANGED <<prefix, prefix_cols, buffer, buffer_cols, echo, size, position>>

redraw(p, failAt) ==
    /\ Running
    /\ UNCHANGED plain
    /\ LET calls == redraw_calls(prefix, visible(buffer, buffer_cols, echo), p)
       IN /\ sink' = Emitted(calls, failAt)
          /\ result' = Outcome(calls, failAt)
    /\ LET again == last.op = "redraw" /\ last.to = p /\ result = "ok"
       IN last' = [Record("redraw", "", 0, TRUE, p) EXCEPT
                     !.again = again,
                     !.first = IF again THEN sink ELSE <<>>]
    /\ returned' = <<>>
    /\ UNCHANGED <<prefix, prefix_cols, buffer, buffer_cols, echo, size, position>>

refresh(buf, p, failAt) ==
    /\ Running
    /\ plain' = plain_refresh(plain, buf)
    /\ UpdateAndRedraw("refresh", "", 0, buf, p, failAt)

write_char(c, failAt, checks) ==
    /\ Running
    /\ Len(buffer) < MaxLen
    /\ plain' = plain_write_char(plain, c, checks)
    /\ LET col == position[1]
           row == position[2]
           pos == col - prefix_cols
           parts == write_char_split(buffer, pos)
           new_buf == parts.before \o <<c>> \o parts.after
           new_pos == <<write_char_col(prefix_cols, pos), row>>
       IN IF col < prefix_cols /\ checks
          THEN Panic("write_char", c, 0)
          ELSE IF parts.panic
          THEN Panic("write_char", c, 0)
          ELSE UpdateAndRedraw("write_char", c, 0, new_buf, new_pos, failAt)

\* fn visible, called: the caller gets the visible form of the text
call_visible ==
    /\ Running
    /\ returned' = visible(buffer, buffer_cols, echo)
    /\ sink' = <<>>
    /\ result' = "ok"
    /\ last' = Record("visible", "", 0, FALSE, <<0, 0>>)
    /\ UNCHANGED <<prefix, prefix_cols, buffer, buffer_cols, echo, size,
                   position, plain>>

\* fn end_pos, called: the caller gets the position, or the call panics
call_end_pos(value, checks) ==
    /\ Running
    /\ LET r == end_pos(prefix_cols, size, position, value, checks)
       IN /\ result' = IF r.panic THEN "panic" ELSE "ok"
          /\ returned' = IF r.panic THEN <<>> ELSE r.pos
    /\ sink' = <<>>
    /\ last' = [Record("end_pos", "", 0, FALSE, <<0, 0>>) EXCEPT !.value = value]
    /\ UNCHANGED <<prefix, prefix_cols, buffer, buffer_cols, echo, size,
                   position, plain>>

\* One operation of the caller; F is the set of writer failures that can
\* happen (0: the writer call succeeds), Cs the characters, Ts the texts,
\* Ps the cursor positions and As the amounts the caller hands over, Ks
\* the builds (TRUE: with overflow checks).
Step(F, Cs, Ts, Ps, As, Ks) ==
    \/ \E sz \in Sizes : set_size(sz)
    \/ \E p \in Ps : set_position(p)
    \/ \E c \in Cs, f \in F : push(c, f)
    \/ \E n \in As, f \in F, k \in Ks : erase_before(n, f, k)
    \/ \E f \in F : write_prefix(f)
    \/ \E p \in DrawPositions, f \in F : redraw(p, f)
    \/ \E t \in Ts, p \in DrawPositions, f \in F : refresh(t, p, f)
    \/ \E c \in Cs, f \in F, k \in Ks : write_char(c, f, k)
    \/ call_visible
    \/ \E v \in EndValues, k \in Ks : call_end_pos(v, k)

\* The writer never fails.
Next == Step({0}, InputChars, RefreshTexts, Positions, 0..MaxAmount, BOOLEAN)

Spec == Init /\ [][Next]_vars

\* Any writer call may fail.
NextIO == Step(FailPoints, {"zh"}, {<<"a", "b">>}, (0..MaxCol) \X {0}, {1},
               {FALSE})

SpecIO == Init /\ [][NextIO]_vars

----------------------------------------------------------------------------
(* Vocabulary of the properties *)

\* the cursor's column offset into the text, as the operations compute it
Offset == position[1] - prefix_cols

\* the first k clusters of gs, joined
Upto(gs, k) == Join(SubSeq(gs, 1, k))

\* the clusters of gs after the first k, joined
After(gs, k) == Join(SubSeq(gs, k + 1, Len(gs)))

\* the writer calls of one full redraw of the current state to position to
FullRedraw(to) ==
    << [kind |-> "MoveTo", col |-> 0, row |-> to[2], bytes |-> <<>>],
       [kind |-> "Clear", col |-> 0, row |-> 0, bytes |-> <<>>],
       [kind |-> "Write", col |-> 0, row |-> 0, bytes |-> prefix],
       [kind |-> "Write", col |-> 0, row |-> 0,
        bytes |-> IF echo = NoEcho THEN buffer
                  ELSE [i \in 1..buffer_cols |-> echo]],
       [kind |-> "MoveTo", col |-> to[1], row |-> to[2], bytes |-> <<>>],
       [kind |-> "Flush", col |-> 0, row |-> 0, bytes |-> <<>>] >>

SingleByteText(s) == \A i \in 1..Len(s) : CharBytes(s[i]) = 1 /\ CharWidth(s[i]) = 1

----------------------------------------------------------------------------
(* C1: write_char on a text with multi-byte graphemes, the cursor column *)
(* on a grapheme boundary right of the line start, does not panic and    *)
(* yields the graphemes before the cursor, then c, then the graphemes    *)
(* after it.                                                             *)
C1_SplitsAtGraphemeBoundary ==
    LET gs == graphemes(last.buffer)
        Boundaries == {k \in 1..Len(gs) : Width(Upto(gs, k)) = Offset}
    IN (/\ last.op = "write_char"
        /\ \E i \in 1..Len(last.buffer) : CharBytes(last.buffer[i]) > 1
        /\ Offset > 0
        /\ Boundaries # {})
       => /\ result = "ok"
          /\ \E k \in Boundaries :
                buffer = Upto(gs, k) \o <<last.c>> \o After(gs, k)

(* C2: write_char on a text of single-byte, single-column characters    *)
(* with 0 < pos < length yields text[0..pos] + c + text[pos..] and      *)
(* redraws to the column right of the cursor column, on the same row.   *)
C2_InsertMidAscii ==
    (/\ last.op = "write_char"
     /\ SingleByteText(last.buffer)
     /\ 0 < Offset /\ Offset < Len(last.buffer))
    => /\ result = "ok"
       /\ buffer = SubSeq(last.buffer, 1, Offset) \o <<last.c>>
                     \o SubSeq(last.buffer, Offset + 1, Len(last.buffer))
       /\ last.drew
       /\ last.to = <<position[1] + 1, position[2]>>
       /\ sink = FullRedraw(<<position[1] + 1, position[2]>>)

C2_Witness ==
    /\ last.op = "write_char"
    /\ last.buffer = <<"a", "b">>
    /\ Offset = 1
    /\ last.c = "zh"
    /\ buffer = <<"a", "zh", "b">>
    /\ result = "ok"

(* C3: write_char at offset 0 yields c followed by the whole previous   *)
(* text, and at offset == length the whole previous text followed by c; *)
(* neither panics.                                                      *)
C3_EdgeOffsets ==
    (last.op = "write_char" /\ Offset \in {0, ByteLen(last.buffer)})
    => /\ result = "ok"
       /\ Offset = 0 => buffer = <<last.c>> \o last.buffer
       /\ Offset = ByteLen(last.buffer) => buffer = last.buffer \o <<last.c>>

(* C4: erase_before(amount) on a non-empty text (its cached width up to *)
(* date) with amount greater than the number of graphemes before the    *)
(* cursor deletes exactly those graphemes, keeps the ones after the     *)
(* cursor, redraws with the cursor at the line start and does not panic *)
(* or fail.                                                             *)
C4_EraseClamps ==
    LET gs == graphemes(last.buffer)
    IN (/\ last.op = "erase_before"
        /\ last.buffer # <<>>
        /\ last.buffer_cols = Width(last.buffer)
        /\ Offset \in 0..Len(gs)
        /\ last.amount > Offset)
       => /\ result = "ok"
          /\ buffer = After(gs, Offset)
          /\ last.drew
          /\ last.to = <<prefix_cols, position[2]>>

(* C5: erase_before(amount) on a text of single-column graphemes with   *)
(* 1 <= amount <= pos removes exactly the amount graphemes before the   *)
(* cursor and redraws with the cursor at prefix_columns + pos - amount  *)
(* on the same row.                                                     *)
C5_EraseBeforeCursor ==
    LET gs == graphemes(last.buffer)
    IN (/\ last.op = "erase_before"
        /\ \A i \in 1..Len(gs) : Width(gs[i]) = 1
        /\ Offset \in 0..Len(gs)
        /\ 1 <= last.amount /\ last.amount <= Offset)
       => /\ result = "ok"
          /\ buffer = Upto(gs, Offset - last.amount) \o After(gs, Offset)
          /\ last.drew
          /\ last.to = <<prefix_cols + Offset - last.amount, position[2]>>

\* C5 holds of erase_before whenever the cached width it reads is the
\* width of the text: only a text left by push makes it fail.
C5_EraseBeforeCursorCached ==
    last.buffer_cols = Width(last.buffer) => C5_EraseBeforeCursor

(* C6: with double-width graphemes in the text and the cache of the     *)
(* text's width up to date, erase_before(amount) deletes the amount     *)
(* grapheme clusters before the cursor and moves the cursor back by the *)
(* sum of their display widths, without failing.                        *)
C6_EraseWideGraphemes ==
    LET gs == graphemes(last.buffer)
        Before == {k \in 0..Len(gs) : Width(Upto(gs, k)) = Offset}
    IN (/\ last.op = "erase_before"
        /\ \E i \in 1..Len(gs) : Width(gs[i]) = 2
        /\ last.buffer_cols = Width(last.buffer)
        /\ \E k \in Before : 1 <= last.amount /\ last.amount <= k)
       => /\ result = "ok"
          /\ \E k \in Before :
                /\ last.amount <= k
                /\ buffer = Upto(gs, k - last.amount) \o After(gs, k)
                /\ last.to = <<prefix_cols + Width(Upto(gs, k - last.amount)),
                               position[2]>>

(* C7: buffer_columns() equals the display width of the buffer() text   *)
(* in every reachable state.                                            *)
C7_ColumnsAreWidth == buffer_cols = Width(buffer)

(* C8: the stored cursor column minus prefix_columns lies between 0 and *)
(* buffer_columns in every reachable state.                             *)
C8_CursorInText == Offset \in 0..buffer_cols

(* C9 as stated: every operation that changes the stored text           *)
(* (write_char, erase_before, refresh, push) and returns successfully   *)
(* has made, after the change, a full redraw through the writer.        *)
TextChanged ==
    \/ last.op = "refresh"
    \/ last.op \in Edits /\ buffer # last.buffer

C9_EveryTextChangeRedraws ==
    (TextChanged /\ result = "ok") => last.drew /\ sink = FullRedraw(last.to)

(* C9 as amended: write_char, erase_before and refresh redraw in full,  *)
(* after the change, whenever they return successfully; push is the     *)
(* exception: it appends the character to the stored text and writes    *)
(* that character alone to the writer, without a redraw or a flush.     *)
C9_EditsRedrawPushWritesRaw ==
    /\ (TextChanged /\ last.op # "push" /\ result = "ok")
          => last.drew /\ sink = FullRedraw(last.to)
    /\ (last.op = "push" /\ result = "ok")
          => /\ buffer = Append(last.buffer, last.c)
             /\ ~last.drew
             /\ sink = <<[kind |-> "Write", col |-> 0, row |-> 0,
                          bytes |-> <<last.c>>]>>

C9_Witness ==
    /\ last.op = "erase_before"
    /\ result = "ok"
    /\ last.buffer = <<"a", "b">>
    /\ buffer = <<"a">>
    /\ sink = FullRedraw(last.to)

(* C10: every successful redraw emits exactly: move to column 0 of the  *)
(* position's row, clear the line, write the prefix, write the visible  *)
(* form of the text (the mask per column when a mask is set, else the   *)
(* text), move to the position, flush.                                  *)
C10_RedrawSequence ==
    (last.drew /\ result = "ok") => sink = FullRedraw(last.to)

C10_Witness ==
    /\ last.op = "redraw"
    /\ result = "ok"
    /\ echo # NoEcho
    /\ buffer = <<"a", "zh">>
    /\ Len(sink) = 6
    /\ sink[4].bytes = <<"*", "*", "*">>
    /\ sink[5].col = MaxCol

(* C11: with a mask set visible() returns the mask once per grapheme   *)
(* of the text (the cached width being up to date), and without a mask  *)
(* the text itself.                                                     *)
C11_MaskPerGrapheme ==
    last.op = "visible"
    => /\ (echo # NoEcho /\ buffer_cols = Width(buffer))
             => returned = [i \in 1..Len(graphemes(buffer)) |-> echo]
       /\ echo = NoEcho => returned = buffer

(* C12: with a mask set, the stored text (as buffer() and the           *)
(* conversion into String give it) and buffer_columns are those of a    *)
(* buffer without a mask that was given the same calls.                 *)
C12_MaskKeepsStoredText ==
    echo # NoEcho
    => /\ buffer = plain.buffer
       /\ buffer_cols = plain.buffer_cols
       /\ into([buffer |-> buffer, buffer_cols |-> buffer_cols]) = into(plain)

C12_Witness ==
    /\ echo # NoEcho
    /\ last.op = "visible"
    /\ returned = <<"*", "*", "*">>
    /\ buffer = <<"zh", "a">>
    /\ plain.buffer = <<"zh", "a">>

(* C14: end_pos(value) returns (prefix_columns + width of value, row)   *)
(* whenever the value fits in the width that remains on the row after   *)
(* the prefix; it fails only when the value does not fit.               *)
C14_EndPosWhenFits ==
    (last.op = "end_pos" /\ Width(last.value) < size[1] - prefix_cols)
    => /\ result = "ok"
       /\ returned = <<prefix_cols + Width(last.value), position[2]>>

(* C16: write_char never panics, whatever the stored cursor position.   *)
C16_WriteCharNeverPanics == last.op = "write_char" => result # "panic"

----------------------------------------------------------------------------
(* The terminal the writer calls act on: the cells of each row and the  *)
(* cursor.  MoveTo sets the cursor, Clear(CurrentLine) empties the      *)
(* cursor's row, a write puts each character at the cursor and advances *)
(* the cursor by the character's width, a flush changes nothing.        *)

Blank == " "

SetCell(line, k, ch) ==
    [i \in 1..(IF k > Len(line) THEN k ELSE Len(line)) |->
        IF i = k THEN ch ELSE IF i <= Len(line) THEN line[i] ELSE Blank]

RECURSIVE WriteCells(_, _, _)
WriteCells(line, col, bytes) ==
    IF bytes = <<>> THEN [line |-> line, col |-> col]
    ELSE LET ch == Head(bytes)
             w == CharWidth(ch)
             one == SetCell(line, col + 1, ch)
             two == SetCell(one, col + w, "")
         IN WriteCells(IF w = 0 THEN line ELSE IF w = 1 THEN one ELSE two,
                       col + w, Tail(bytes))

TermStep(t, call) ==
    LET col == t.cur[1]
        row == t.cur[2]
    IN IF call.kind = "MoveTo" THEN [t EXCEPT !.cur = <<call.col, call.row>>]
       ELSE IF call.kind = "Clear" THEN [t EXCEPT !.lines[row] = <<>>]
       ELSE IF call.kind = "Write"
       THEN LET w == WriteCells(t.lines[row], col, call.bytes)
            IN [t EXCEPT !.lines[row] = w.line, !.cur = <<w.col, row>>]
       ELSE t

RECURSIVE Render(_, _)
Render(t, calls) ==
    IF calls = <<>> THEN t ELSE Render(TermStep(t, Head(calls)), Tail(calls))

\* terminals a redraw can find: empty or full rows, the cursor anywhere
\* a caller can have left it
Terminals ==
    { [lines |-> [r \in Rows |-> l], cur |-> p] :
        l \in {<<>>, [i \in 1..(MaxCol + MaxLen) |-> "x"]}, p \in DrawPositions }

(* C13: redraw changes no field of the buffer, and a second redraw to   *)
(* the same position, with nothing changed in between, makes the same   *)
(* writer calls and leaves the terminal's rows and cursor as the first  *)
(* redraw left them.                                                    *)
C13_RedrawIdempotent ==
    [][ last'.op = "redraw"
        => /\ UNCHANGED <<prefix, prefix_cols, buffer, buffer_cols, echo,
                          size, position>>
           /\ (last'.again /\ result' = "ok")
                 => /\ sink' = last'.first
                    /\ \A t \in Terminals :
                          Render(Render(t, sink'), sink') = Render(t, sink') ]_vars

C13_Witness ==
    /\ last.op = "redraw"
    /\ last.again
    /\ result = "ok"
    /\ buffer = <<"a", "zh">>
    /\ sink = last.first

(* C18: with a mask set, what erase_before writes depends on the stored *)
(* text only through buffer_columns: it is what erase_before writes for *)
(* a text of single-column characters with the same buffer_columns.     *)
C18_OutputDependsOnColumnsOnly ==
    ( /\ echo # NoEcho
      /\ last.op = "erase_before"
      /\ last.drew
      /\ result = "ok"
      /\ last.buffer_cols = Width(last.buffer)
      /\ last.buffer_cols > 0
      /\ Offset >= last.amount )
    => LET same == [i \in 1..last.buffer_cols |-> "a"]
           nb == erase_new_buf(same, last.buffer_cols, Offset, last.amount)
           new_col == erase_new_col(prefix_cols, Offset, last.amount)
       IN ~nb.panic
          => sink = redraw_calls(prefix, [i \in 1..Width(nb.buf) |-> echo],
                                 <<new_col, position[2]>>)

(* C18 (amended): with a mask set, redraw, refresh, write_char and      *)
(* erase_before write only the prefix and the mask repeated             *)
(* buffer_columns times, buffer_columns being that of the text after    *)
(* the operation: no character of the stored text reaches the writer.   *)
C18_MaskedOutputHidesText ==
    (echo # NoEcho /\ last.op \in {"redraw", "refresh", "write_char", "erase_before"})
    => \A i \in 1..Len(sink) :
          sink[i].kind = "Write"
          => \/ i = 3 /\ sink[i].bytes = prefix
             \/ /\ i = 4
                /\ Len(sink[i].bytes) = buffer_cols
                /\ \A j \in 1..Len(sink[i].bytes) : sink[i].bytes[j] = echo

C18_Witness ==
    /\ echo # NoEcho
    /\ last.op = "write_char"
    /\ result = "ok"
    /\ buffer = <<"a", "zh">>
    /\ Len(sink) > 3
    /\ sink[4].bytes = <<"*", "*", "*">>

(* C19: position and size are changed only by set_position and         *)
(* set_size; an edit sends the cursor column it computes to the writer  *)
(* and does not store it.                                               *)
C19_OnlySettersStorePositionAndSize ==
    [][ /\ last'.op # "set_position" => position' = position
        /\ last'.op # "set_size" => size' = size ]_vars

C19_Witness ==
    /\ last.op = "write_char"
    /\ result = "ok"
    /\ last.to = <<position[1] + 1, position[2]>>
    /\ sink[5] = MoveTo(position[1] + 1, position[2])

\* the writer calls the last operation makes when none of them fails
Intended ==
    IF last.drew THEN FullRedraw(last.to)
    ELSE IF last.op = "write_prefix"
    THEN << [kind |-> "Write", col |-> 0, row |-> 0, bytes |-> prefix],
            [kind |-> "Flush", col |-> 0, row |-> 0, bytes |-> <<>>] >>
    ELSE IF last.op = "push"
    THEN << [kind |-> "Write", col |-> 0, row |-> 0, bytes |-> <<last.c>>] >>
    ELSE <<>>

(* C15: when a writer call of redraw, refresh, write_char, erase_before,*)
(* write_prefix or push fails, the operation returns the error and the  *)
(* writer has received exactly the calls before the failing one: none   *)
(* after it, and none twice.  When none fails it receives them all.     *)
C15_FailureStopsTheOperation ==
    /\ result = "io_err"
          => /\ Len(sink) < Len(Intended)
             /\ sink = SubSeq(Intended, 1, Len(sink))
    /\ result = "ok" => sink = Intended

C15_Witness ==
    /\ result = "io_err"
    /\ last.op = "erase_before"
    /\ Len(sink) = 3
    /\ sink[3].bytes = prefix

(* C17: when the redraw of write_char, erase_before or refresh fails,   *)
(* the text and buffer_columns already hold the value after the edit.   *)
C17_NoRollbackOnFailedRedraw ==
    (result = "io_err" /\ last.op \in {"write_char", "erase_before", "refresh"})
    => /\ buffer_cols = Width(buffer)
       /\ last.op = "refresh" => buffer = last.value
       /\ last.op = "write_char"
             => LET parts == write_char_split(last.buffer, Offset)
                IN buffer = parts.before \o <<last.c>> \o parts.after
       /\ last.op = "erase_before"
             => buffer = erase_new_buf(last.buffer, last.buffer_cols,
                                       Offset, last.amount).buf

C17_Witness ==
    /\ result = "io_err"
    /\ last.op = "write_char"
    /\ buffer # last.buffer
    /\ buffer = <<"a", "zh", "b">>
    /\ Len(sink) < 4

====
